---- MODULE Spec2Model ----
(***************************************************************************)
(* Model of the LP hedge backtest: v3_math.amounts_from_L / lp_value,      *)
(* init_position.calc_usdt_for_eth_in_pool, calculate_k and the            *)
(* run_backtest loop of backtest_eth_FREEZE_20260108.py.                   *)
(*                                                                         *)
(* Numbers.  The program computes in Python floats.  The model computes    *)
(* in exact rationals <<n, d>> (d > 0, lowest terms); prices handed to     *)
(* math.sqrt are drawn from perfect squares so that the square root is     *)
(* exact.  Floating-point rounding is therefore not modelled.              *)
(***************************************************************************)
EXTENDS Integers, Sequences, FiniteSets, TLC

\* ------------------------------------------------------------ bounds
MaxRoot == 5
MaxLen == 3
MaxPrice == 6

\* ------------------------------------------------------------ rationals
RECURSIVE GCD(_, _)
GCD(a, b) == IF b = 0 THEN a ELSE GCD(b, a % b)

IAbs(n) == IF n < 0 THEN -n ELSE n

Rat(n, d) ==
    LET s == IF d < 0 THEN -1 ELSE 1
        g == GCD(IAbs(n), IAbs(d))
    IN  <<(s * n) \div g, (s * d) \div g>>

Zero == <<0, 1>>
One == <<1, 1>>
Two == <<2, 1>>

Add(a, b) == Rat(a[1] * b[2] + b[1] * a[2], a[2] * b[2])
Sub(a, b) == Rat(a[1] * b[2] - b[1] * a[2], a[2] * b[2])
Mul(a, b) == Rat(a[1] * b[1], a[2] * b[2])
Div(a, b) == Rat(a[1] * b[2], a[2] * b[1])
Neg(a) == <<-a[1], a[2]>>
Abs(a) == <<IAbs(a[1]), a[2]>>
Lt(a, b) == a[1] * b[2] < b[1] * a[2]
Le(a, b) == a[1] * b[2] <= b[1] * a[2]

\* math.sqrt on the perfect squares the model draws its prices from
ISqrt(n) == CHOOSE r \in 0..n : r * r = n
Sqrt(a) == <<ISqrt(a[1]), ISqrt(a[2])>>

\* ------------------------------------------------------------ v3_math
\* mutant: the amounts are returned in the order (quote, base)
AmountsFromLSwapped(P, pl, pu, liq) ==
    IF Le(P, Zero) \/ Le(pl, Zero) \/ Le(pu, Zero) \/ Le(liq, Zero) \/ Le(pu, pl)
    THEN [ok |-> FALSE, x |-> Zero, y |-> Zero]
    ELSE IF Le(P, pl)
    THEN [ok |-> TRUE, x |-> Zero,
          y |-> Mul(liq, Sub(Div(One, Sqrt(pl)), Div(One, Sqrt(pu))))]
    ELSE IF Lt(P, pu)
    THEN [ok |-> TRUE, x |-> Mul(liq, Sub(Sqrt(P), Sqrt(pl))),
          y |-> Mul(liq, Sub(Div(One, Sqrt(P)), Div(One, Sqrt(pu))))]
    ELSE [ok |-> TRUE, x |-> Mul(liq, Sub(Sqrt(pu), Sqrt(pl))), y |-> Zero]

\* amounts_from_L: ok = FALSE stands for the ValueError it raises
AmountsFromL(P, pl, pu, liq) ==
    IF Le(P, Zero) \/ Le(pl, Zero) \/ Le(pu, Zero) THEN [ok |-> FALSE, x |-> Zero, y |-> Zero]
    ELSE IF Le(liq, Zero) THEN [ok |-> FALSE, x |-> Zero, y |-> Zero]
    ELSE IF Le(pu, pl) THEN [ok |-> FALSE, x |-> Zero, y |-> Zero]
    ELSE LET sqrtP == Sqrt(P)
             sqrtPa == Sqrt(pl)
             sqrtPb == Sqrt(pu)
         IN  IF Le(P, pl)
             THEN [ok |-> TRUE,
                   x |-> Mul(liq, Sub(Div(One, sqrtPa), Div(One, sqrtPb))),
                   y |-> Zero]
             ELSE IF Lt(P, pu)
             THEN [ok |-> TRUE,
                   x |-> Mul(liq, Sub(Div(One, sqrtP), Div(One, sqrtPb))),
                   y |-> Mul(liq, Sub(sqrtP, sqrtPa))]
             ELSE [ok |-> TRUE,
                   x |-> Zero,
                   y |-> Mul(liq, Sub(sqrtPb, sqrtPa))]

\* lp_value: x * P + y, the ValueError of amounts_from_L propagates
LpValue(P, pl, pu, liq) ==
    LET a == AmountsFromL(P, pl, pu, liq)
    IN  IF a.ok THEN [ok |-> TRUE, v |-> Add(Mul(a.x, P), a.y)]
        ELSE [ok |-> FALSE, v |-> Zero]

\* mutant: value_per_L without the factor 2 on sqrt(P0)
LFromInitialUsdNoFactor(p0, pl, pu, initial_usd) ==
    IF ~(Lt(pl, p0) /\ Lt(p0, pu)) THEN [ok |-> FALSE, L |-> Zero]
    ELSE IF Le(initial_usd, Zero) THEN [ok |-> FALSE, L |-> Zero]
    ELSE LET value_per_L == Sub(Sub(Sqrt(p0), Div(p0, Sqrt(pu))), Sqrt(pl))
         IN  IF Le(value_per_L, Zero) THEN [ok |-> FALSE, L |-> Zero]
             ELSE [ok |-> TRUE, L |-> Div(initial_usd, value_per_L)]

\* L_from_initial_usd: ok = FALSE stands for the ValueError it raises
LFromInitialUsd(p0, pl, pu, initial_usd) ==
    IF ~(Lt(pl, p0) /\ Lt(p0, pu)) THEN [ok |-> FALSE, L |-> Zero]
    ELSE IF Le(initial_usd, Zero) THEN [ok |-> FALSE, L |-> Zero]
    ELSE LET sqrtP0 == Sqrt(p0)
             sqrtPa == Sqrt(pl)
             sqrtPb == Sqrt(pu)
             value_per_L == Sub(Sub(Mul(Two, sqrtP0), Div(p0, sqrtPb)), sqrtPa)
         IN  IF Le(value_per_L, Zero) THEN [ok |-> FALSE, L |-> Zero]
             ELSE [ok |-> TRUE, L |-> Div(initial_usd, value_per_L)]

\* ------------------------------------------------------------ init_position
\* mutant: the range check admits a price on the bounds
CalcUsdtForEthInPoolClosed(price, lower, upper, eth) ==
    IF Le(eth, Zero) THEN [ok |-> FALSE, v |-> Zero]
    ELSE IF ~(Le(lower, price) /\ Le(price, upper)) THEN [ok |-> FALSE, v |-> Zero]
    ELSE LET sqrt_price == Sqrt(price)
             sqrt_lower == Sqrt(lower)
             sqrt_upper == Sqrt(upper)
             delta_sqrt_inv == Sub(Div(One, sqrt_price), Div(One, sqrt_upper))
         IN  IF Le(delta_sqrt_inv, Zero) THEN [ok |-> FALSE, v |-> Zero]
             ELSE [ok |-> TRUE, v |-> Mul(Div(eth, delta_sqrt_inv), Sub(sqrt_price, sqrt_lower))]

\* mutant: the liquidity is eth * (1/sqrtP - 1/sqrtPu) instead of the quotient
CalcUsdtForEthInPoolTimes(price, lower, upper, eth) ==
    IF Le(eth, Zero) THEN [ok |-> FALSE, v |-> Zero]
    ELSE IF ~(Lt(lower, price) /\ Lt(price, upper)) THEN [ok |-> FALSE, v |-> Zero]
    ELSE LET delta_sqrt_inv == Sub(Div(One, Sqrt(price)), Div(One, Sqrt(upper)))
         IN  IF Le(delta_sqrt_inv, Zero) THEN [ok |-> FALSE, v |-> Zero]
             ELSE [ok |-> TRUE,
                   v |-> Mul(Mul(eth, delta_sqrt_inv), Sub(Sqrt(price), Sqrt(lower)))]

\* calc_usdt_for_eth_in_pool; math.sqrt of a negative number raises ValueError
CalcUsdtForEthInPool(price, lower, upper, eth) ==
    IF Le(eth, Zero) THEN [ok |-> FALSE, v |-> Zero]
    ELSE IF ~(Lt(lower, price) /\ Lt(price, upper)) THEN [ok |-> FALSE, v |-> Zero]
    ELSE IF Lt(price, Zero) \/ Lt(lower, Zero) \/ Lt(upper, Zero) THEN [ok |-> FALSE, v |-> Zero]
    ELSE LET sqrt_price == Sqrt(price)
             sqrt_lower == Sqrt(lower)
             sqrt_upper == Sqrt(upper)
             delta_sqrt_inv == Sub(Div(One, sqrt_price), Div(One, sqrt_upper))
         IN  IF Le(delta_sqrt_inv, Zero) THEN [ok |-> FALSE, v |-> Zero]
             ELSE LET liquidity == Div(eth, delta_sqrt_inv)
                      delta_sqrt == Sub(sqrt_price, sqrt_lower)
                  IN  IF Lt(delta_sqrt, Zero) THEN [ok |-> FALSE, v |-> Zero]
                      ELSE [ok |-> TRUE, v |-> Mul(liquidity, delta_sqrt)]

\* ------------------------------------------------------------ strategy rule
\* mutant: both segments interpolate over the whole range width
CalculateKFullWidth(P, pl, pu, k0) ==
    IF Le(P, pl) THEN One
    ELSE IF Le(pu, P) THEN Zero
    ELSE LET mid == Div(Add(pl, pu), Two)
         IN  IF Le(P, mid)
             THEN Sub(One, Div(Mul(Sub(One, k0), Sub(P, pl)), Sub(pu, pl)))
             ELSE Sub(k0, Div(Mul(k0, Sub(P, mid)), Sub(pu, pl)))

CalculateK(P, pl, pu, k0) ==
    IF Le(P, pl) THEN One
    ELSE IF Le(pu, P) THEN Zero
    ELSE LET mid == Div(Add(pl, pu), Two)
         IN  IF Le(P, mid)
             THEN Sub(One, Div(Mul(Sub(One, k0), Sub(P, pl)), Sub(mid, pl)))
             ELSE Sub(k0, Div(Mul(k0, Sub(P, mid)), Sub(pu, mid)))

\* ------------------------------------------------------------ inputs
\* prices are squares of small integers (0 is a price the loader accepts
\* and amounts_from_L rejects)
Prices == {<<r * r, 1>> : r \in 0..MaxRoot}

RECURSIVE SeqsUpTo(_, _)
SeqsUpTo(S, n) ==
    IF n = 0 THEN {<<>>}
    ELSE LET shorter == SeqsUpTo(S, n - 1)
         IN  shorter \cup {Append(s, e) : s \in {t \in shorter : Len(t) = n - 1}, e \in S}

\* load_eth_1h_csv returns rows sorted by timestamp; row j carries timestamp j
Stamp(ps) == [j \in 1..Len(ps) |-> <<j, ps[j]>>]

\* two valid ranges, and one with Pl = 0 that amounts_from_L rejects
Ranges == {<<<<1, 1>>, <<16, 1>>>>, <<<<4, 1>>, <<25, 1>>>>, <<Zero, <<16, 1>>>>}
EthAmounts == {Zero, Two}
K0s == {<<1, 2>>, <<7, 10>>, One}
Thresholds == {<<1, 20>>, <<5, 4>>}
P0Modes == {"from_data", "fixed"}
CfgP0 == <<9, 1>>
\* the [START_TS, END_TS] window: all rows, without the first, without the last
Windows == {<<1, MaxLen>>, <<2, MaxLen>>, <<1, MaxLen - 1>>}

\* ------------------------------------------------------------ state
VARIABLES
    data_all, start_ts, end_ts, Pl, Pu, eth_in_pool, hedge_k0, threshold, P0_MODE,
    pc, price_data, i, P0, L, initial_usdt, lp_value_start,
    current_H, cash, anchor_price,
    rebalance_events, rebalance_count, cumulative_abs_delta_h,
    result,
    call

inputs == <<data_all, start_ts, end_ts, Pl, Pu, eth_in_pool, hedge_k0, threshold, P0_MODE>>
position == <<P0, L, initial_usdt, lp_value_start>>
hedge == <<current_H, cash, anchor_price>>
log == <<rebalance_events, rebalance_count, cumulative_abs_delta_h>>
run == <<inputs, pc, price_data, i, position, hedge, log, result>>
vars == <<run, call>>

NoResult == [returned |-> FALSE]
NoCall == [fn |-> "none"]

Init ==
    /\ \E ps \in SeqsUpTo(Prices, MaxLen) : data_all = Stamp(ps)
    /\ \E w \in Windows : start_ts = w[1] /\ end_ts = w[2]
    /\ \E r \in Ranges : Pl = r[1] /\ Pu = r[2]
    /\ eth_in_pool \in EthAmounts
    /\ hedge_k0 \in K0s
    /\ threshold \in Thresholds
    /\ P0_MODE \in P0Modes
    /\ pc = "start"
    /\ price_data = <<>>
    /\ i = 0
    /\ P0 = Zero /\ L = Zero /\ initial_usdt = Zero /\ lp_value_start = Zero
    /\ current_H = Zero /\ cash = Zero /\ anchor_price = Zero
    /\ rebalance_events = <<>> /\ rebalance_count = 0 /\ cumulative_abs_delta_h = Zero
    /\ result = NoResult
    /\ call = NoCall

\* ------------------------------------------------------------ run_backtest
FilterPeriod(data, s, e) ==
    LET InWindow(row) == s <= row[1] /\ row[1] <= e
    IN  SelectSeq(data, InWindow)

\* mutant: the configured P0 is used whatever the policy
ResolveP0Fixed(mode, pd) == CfgP0
ResolveP0(mode, pd) == IF mode = "from_data" THEN pd[1][2] ELSE CfgP0

InitialShortEth(eth, k0) == Mul(eth, k0)
InitialH(eth, k0) == Neg(InitialShortEth(eth, k0))
\* mutant: the proceeds of the opening short are not credited
InitialCashZero(eth, k0, p0) == Zero
InitialCash(eth, k0, p0) == Add(Zero, Mul(InitialShortEth(eth, k0), p0))

\* mutant: the denominator is taken on prices, not on their square roots
LiquidityDenomNoSqrt(p0, pu) == Sub(Div(One, p0), Div(One, pu))
\* lines 179-182: denom = 1/sqrt(P0) - 1/sqrt(Pu)
LiquidityDenom(p0, pu) == Sub(Div(One, Sqrt(p0)), Div(One, Sqrt(pu)))

\* lines 164-204: everything before the loop; ok = FALSE when a ValueError is raised
Setup ==
    LET pd == FilterPeriod(data_all, start_ts, end_ts)
    IN  IF Len(pd) < 2 THEN [ok |-> FALSE]
        ELSE LET p0 == ResolveP0(P0_MODE, pd)
                 usdt == CalcUsdtForEthInPool(p0, Pl, Pu, eth_in_pool)
             IN  IF ~usdt.ok THEN [ok |-> FALSE]
                 ELSE LET denom == LiquidityDenom(p0, Pu)
                      IN  IF Le(denom, Zero) THEN [ok |-> FALSE]
                          ELSE LET liq == Div(eth_in_pool, denom)
                                   a0 == AmountsFromL(p0, Pl, Pu, liq)
                                   v0 == LpValue(p0, Pl, Pu, liq)
                               IN  IF ~a0.ok \/ ~v0.ok THEN [ok |-> FALSE]
                                   ELSE [ok |-> TRUE, pd |-> pd, P0 |-> p0,
                                         initial_usdt |-> usdt.v, L |-> liq,
                                         lp_value_start |-> v0.v]

Raise ==
    /\ pc' = "raised"
    /\ result' = NoResult

StartOk ==
    /\ pc = "start"
    /\ Setup.ok
    /\ price_data' = Setup.pd
    /\ P0' = Setup.P0
    /\ initial_usdt' = Setup.initial_usdt
    /\ L' = Setup.L
    /\ lp_value_start' = Setup.lp_value_start
    /\ current_H' = InitialH(eth_in_pool, hedge_k0)
    /\ cash' = InitialCash(eth_in_pool, hedge_k0, Setup.P0)
    /\ anchor_price' = Setup.P0
    /\ rebalance_events' = <<>>
    /\ rebalance_count' = 0
    /\ cumulative_abs_delta_h' = Zero
    /\ i' = 2
    /\ pc' = "running"
    /\ UNCHANGED <<inputs, result, call>>

StartRaise ==
    /\ pc = "start"
    /\ ~Setup.ok
    /\ Raise
    /\ UNCHANGED <<inputs, price_data, i, position, hedge, log, call>>

Move(P_now, anchor) == Div(Abs(Sub(P_now, anchor)), anchor)
\* mutant: a move equal to the threshold is skipped
SkipsInclusive(move, thr) == Le(move, thr)
Skips(move, thr) == Lt(move, thr)
\* mutant: the target hedge is long instead of short
TargetHLong(eth_now, k) == Mul(eth_now, k)
TargetH(eth_now, k) == Neg(Mul(eth_now, k))
DeltaH(target_H, H_before) == Sub(target_H, H_before)
\* mutant: the signed delta is accumulated
AccumulateSigned(cum, delta_h) == Add(cum, delta_h)
Accumulate(cum, delta_h) == Add(cum, Abs(delta_h))
\* mutant: the trade's cash flow has the wrong sign
CashAfterCredit(c, delta_h, P_now) == Add(c, Mul(delta_h, P_now))
CashAfter(c, delta_h, P_now) == Sub(c, Mul(delta_h, P_now))
HedgePnl(c, H, P) == Add(c, Mul(H, P))
\* mutant: the anchor is never moved off P0
NextAnchorStale(P_now) == P0
NextAnchor(P_now) == P_now

InLoop == pc = "running" /\ i <= Len(price_data)

\* mutant: the anchor follows every tick, triggered or not
TickSkipMovesAnchor ==
    /\ InLoop
    /\ Skips(Move(price_data[i][2], anchor_price), threshold)
    /\ i' = i + 1
    /\ anchor_price' = price_data[i][2]
    /\ UNCHANGED <<inputs, pc, price_data, position, current_H, cash, log, result, call>>

TickSkip ==
    /\ InLoop
    /\ Skips(Move(price_data[i][2], anchor_price), threshold)
    /\ i' = i + 1
    /\ UNCHANGED <<inputs, pc, price_data, position, hedge, log, result, call>>

TickRebalance ==
    /\ InLoop
    /\ LET ts == price_data[i][1]
           P_now == price_data[i][2]
           move == Move(P_now, anchor_price)
           H_before == current_H
           k == CalculateK(P_now, Pl, Pu, hedge_k0)
           a == AmountsFromL(P_now, Pl, Pu, L)
           target_H == TargetH(a.x, k)
           delta_h == DeltaH(target_H, H_before)
           cash_after == CashAfter(cash, delta_h, P_now)
       IN  /\ ~Skips(move, threshold)
           /\ a.ok
           /\ cumulative_abs_delta_h' = Accumulate(cumulative_abs_delta_h, delta_h)
           /\ cash' = cash_after
           /\ current_H' = target_H
           /\ rebalance_count' = rebalance_count + 1
           /\ rebalance_events' = Append(rebalance_events,
                  [ts |-> ts, price |-> P_now, anchor_before |-> anchor_price,
                   move |-> move, k |-> k, eth_now |-> a.x,
                   H_before |-> H_before, H_target |-> target_H,
                   delta_H |-> delta_h, cash |-> cash_after,
                   hedge_pnl_mtm |-> HedgePnl(cash_after, target_H, P_now)])
           /\ anchor_price' = NextAnchor(P_now)
    /\ i' = i + 1
    /\ UNCHANGED <<inputs, pc, price_data, position, result, call>>

TickRaise ==
    /\ InLoop
    /\ ~Skips(Move(price_data[i][2], anchor_price), threshold)
    /\ ~AmountsFromL(price_data[i][2], Pl, Pu, L).ok
    /\ Raise
    /\ UNCHANGED <<inputs, price_data, i, position, hedge, log, call>>

\* lines 265-298
\* mutant: the summary is marked at the last rebalance price
FinalPriceAtAnchor(pd) == anchor_price
FinalPrice(pd) == pd[Len(pd)][2]

Summary ==
    LET final_price == FinalPrice(price_data)
        hedge_pnl == HedgePnl(cash, current_H, final_price)
        lp_value_end == LpValue(final_price, Pl, Pu, L)
        lp_pnl == Sub(lp_value_end.v, lp_value_start)
        total_pnl == Add(lp_pnl, hedge_pnl)
    IN  [ok |-> lp_value_end.ok,
         summary |->
            [rebalance_count |-> rebalance_count,
             cumulative_abs_delta_h |-> cumulative_abs_delta_h,
             hedge_pnl |-> hedge_pnl,
             lp_pnl |-> lp_pnl,
             total_pnl |-> total_pnl,
             final_price |-> final_price,
             lp_value_start |-> lp_value_start,
             lp_value_end |-> lp_value_end.v,
             final_hedge_position |-> current_H,
             P0 |-> P0, Pl |-> Pl, Pu |-> Pu, L |-> L,
             eth_in_pool |-> eth_in_pool,
             initial_usdt_required |-> initial_usdt,
             threshold |-> threshold,
             hedge_k0 |-> hedge_k0]]

LoopDone == pc = "running" /\ i > Len(price_data)

FinishOk ==
    /\ LoopDone
    /\ Summary.ok
    /\ pc' = "complete"
    /\ result' = [returned |-> TRUE,
                  rebalance_events |-> rebalance_events,
                  summary |-> Summary.summary]
    /\ UNCHANGED <<inputs, price_data, i, position, hedge, log, call>>

FinishRaise ==
    /\ LoopDone
    /\ ~Summary.ok
    /\ Raise
    /\ UNCHANGED <<inputs, price_data, i, position, hedge, log, call>>

Next ==
    \/ StartOk
    \/ StartRaise
    \/ TickSkip
    \/ TickRebalance
    \/ TickRaise
    \/ FinishOk
    \/ FinishRaise

Spec == Init /\ [][Next]_vars

\* ------------------------------------------------------------ pure functions
\* no run in progress: the specifications below only call one function
RunIdle ==
    /\ data_all = <<>> /\ start_ts = 1 /\ end_ts = 1
    /\ Pl = One /\ Pu = Two /\ eth_in_pool = One /\ hedge_k0 = One
    /\ threshold = One /\ P0_MODE = "fixed"
    /\ pc = "idle"
    /\ price_data = <<>>
    /\ i = 0
    /\ P0 = Zero /\ L = Zero /\ initial_usdt = Zero /\ lp_value_start = Zero
    /\ current_H = Zero /\ cash = Zero /\ anchor_price = Zero
    /\ rebalance_events = <<>> /\ rebalance_count = 0 /\ cumulative_abs_delta_h = Zero
    /\ result = NoResult

Liquidities == {Zero, One, <<3, 2>>}

InitAmounts ==
    /\ RunIdle
    /\ \E P \in Prices, lo \in Prices, hi \in Prices, liq \in Liquidities :
          call = [fn |-> "amounts_from_L", done |-> FALSE,
                  P |-> P, Pl |-> lo, Pu |-> hi, L |-> liq,
                  ok |-> FALSE, x |-> Zero, y |-> Zero]

ApplyAmountsFromL ==
    /\ call.fn = "amounts_from_L"
    /\ ~call.done
    /\ LET a == AmountsFromL(call.P, call.Pl, call.Pu, call.L)
       IN  call' = [call EXCEPT !.done = TRUE, !.ok = a.ok, !.x = a.x, !.y = a.y]
    /\ UNCHANGED run

SpecAmounts == InitAmounts /\ [][ApplyAmountsFromL]_vars

HalfPrices == {Rat(n, 2) : n \in 0..(2 * MaxPrice + 2)}
IntPrices == {<<n, 1>> : n \in 1..MaxPrice}
RatioK0s == {Zero, <<3, 10>>, <<1, 2>>, <<7, 10>>, One}

InitK ==
    /\ RunIdle
    /\ \E P \in HalfPrices, lo \in IntPrices, hi \in IntPrices, k0 \in RatioK0s :
          /\ Lt(lo, hi)
          /\ call = [fn |-> "calculate_k", done |-> FALSE,
                     P |-> P, Pl |-> lo, Pu |-> hi, k0 |-> k0, k |-> Zero]

ApplyCalculateK ==
    /\ call.fn = "calculate_k"
    /\ ~call.done
    /\ call' = [call EXCEPT !.done = TRUE,
                            !.k = CalculateK(call.P, call.Pl, call.Pu, call.k0)]
    /\ UNCHANGED run

SpecK == InitK /\ [][ApplyCalculateK]_vars

TargetValues == {<<-1, 1>>, Zero, One, <<3, 2>>, <<100, 1>>}

InitL ==
    /\ RunIdle
    /\ \E p0 \in Prices, lo \in Prices, hi \in Prices, usd \in TargetValues :
          call = [fn |-> "L_from_initial_usd", done |-> FALSE,
                  P0 |-> p0, Pl |-> lo, Pu |-> hi, initial_usd |-> usd,
                  ok |-> FALSE, L |-> Zero, value_ok |-> FALSE, value |-> Zero]

\* L_from_initial_usd, then lp_value at P0 with the liquidity it returned
\* (the self-test's Test 1)
ApplyLFromInitialUsd ==
    /\ call.fn = "L_from_initial_usd"
    /\ ~call.done
    /\ LET r == LFromInitialUsd(call.P0, call.Pl, call.Pu, call.initial_usd)
           v == IF r.ok THEN LpValue(call.P0, call.Pl, call.Pu, r.L)
                ELSE [ok |-> FALSE, v |-> Zero]
       IN  call' = [call EXCEPT !.done = TRUE, !.ok = r.ok, !.L = r.L,
                                !.value_ok = v.ok, !.value = v.v]
    /\ UNCHANGED run

SpecL == InitL /\ [][ApplyLFromInitialUsd]_vars

PoolAmounts == {One, <<3, 2>>}
Moved == {"price", "lower", "upper"}

\* two calls that differ in one parameter, as in the self-check's tests 1-3
InitUsdt ==
    /\ RunIdle
    /\ \E p \in Prices, lo \in Prices, hi \in Prices, eth \in PoolAmounts,
          which \in Moved, other \in Prices :
          call = [fn |-> "calc_usdt_for_eth_in_pool", done |-> FALSE,
                  price |-> p, lower |-> lo, upper |-> hi, eth_in_pool |-> eth,
                  price2 |-> IF which = "price" THEN other ELSE p,
                  lower2 |-> IF which = "lower" THEN other ELSE lo,
                  upper2 |-> IF which = "upper" THEN other ELSE hi,
                  ok |-> FALSE, usdt |-> Zero, ok2 |-> FALSE, usdt2 |-> Zero]

ApplyCalcUsdt ==
    /\ call.fn = "calc_usdt_for_eth_in_pool"
    /\ ~call.done
    /\ LET a == CalcUsdtForEthInPool(call.price, call.lower, call.upper, call.eth_in_pool)
           b == CalcUsdtForEthInPool(call.price2, call.lower2, call.upper2, call.eth_in_pool)
       IN  call' = [call EXCEPT !.done = TRUE, !.ok = a.ok, !.usdt = a.v,
                                !.ok2 = b.ok, !.usdt2 = b.v]
    /\ UNCHANGED run

SpecUsdt == InitUsdt /\ [][ApplyCalcUsdt]_vars

\* ------------------------------------------------------------ claims
\* the tick about to be examined, and its relative move from the anchor
AtTick == pc = "running" /\ i <= Len(price_data)
TickTs == price_data[i][1]
TickPrice == price_data[i][2]
TickMove == Div(Abs(Sub(TickPrice, anchor_price)), anchor_price)
NEvents == Len(rebalance_events)

\* C1 (log part): rebalance_count is the number of events in the log, the
\* events are in series order, and each carries the timestamp and price of a
\* point after the first of the filtered series.
C1_Log ==
    /\ rebalance_count = NEvents
    /\ \A j \in 1..NEvents : \A k \in 1..NEvents :
          j < k => rebalance_events[j].ts < rebalance_events[k].ts
    /\ \A j \in 1..NEvents : \E n \in 2..Len(price_data) :
          /\ n < i
          /\ price_data[n][1] = rebalance_events[j].ts
          /\ price_data[n][2] = rebalance_events[j].price

\* C1 (step part): a tick the run survives appends exactly one event, with
\* the tick's timestamp and price, iff move >= threshold (equality triggers),
\* and appends nothing otherwise; a tick aborts the run only when it
\* triggers at a price <= 0.
C1_Tick ==
    AtTick =>
        LET hit == Le(threshold, TickMove)
        IN  /\ pc' = "running" =>
                /\ i' = i + 1
                /\ hit <=> Len(rebalance_events') = NEvents + 1
                /\ ~hit => rebalance_events' = rebalance_events
                /\ hit =>
                    /\ SubSeq(rebalance_events', 1, NEvents) = rebalance_events
                    /\ rebalance_events'[NEvents + 1].ts = TickTs
                    /\ rebalance_events'[NEvents + 1].price = TickPrice
            /\ pc' # "running" => pc' = "raised" /\ hit /\ Le(TickPrice, Zero)

\* C1: every tick after the first rebalances iff move >= threshold, each
\* trigger appends exactly one event with that tick's timestamp and price,
\* rebalance_count = number of events, and the log is in series order.
C1_TriggerIffMoveAtLeastThreshold == [](C1_Log) /\ [][C1_Tick]_vars

\* a rebalance triggered by a move exactly equal to the threshold
C1_Witness ==
    /\ NEvents >= 1
    /\ rebalance_events[NEvents].move = threshold
    /\ rebalance_count = NEvents

\* C2: a skipped tick (move < threshold) leaves currentPosition, cash,
\* anchorPrice, cumulative_abs_delta_h, rebalance_count and the event log
\* unchanged.
C2_SkippedTickChangesNothing ==
    [][(AtTick /\ Lt(TickMove, threshold)) =>
          /\ current_H' = current_H
          /\ cash' = cash
          /\ anchor_price' = anchor_price
          /\ cumulative_abs_delta_h' = cumulative_abs_delta_h
          /\ rebalance_count' = rebalance_count
          /\ rebalance_events' = rebalance_events]_vars

\* the second point moved the price, by less than the threshold, and was skipped
C2_Witness ==
    /\ pc = "running"
    /\ i = 3
    /\ price_data[2][2] # anchor_price
    /\ Lt(Div(Abs(Sub(price_data[2][2], anchor_price)), anchor_price), threshold)
    /\ rebalance_events = <<>>

\* C3: the anchor is P0 until the first trigger and afterwards the price of
\* the latest event; the first event's anchor_before is P0 and every later
\* event's anchor_before is the price of the event before it.
C3_AnchorFromEvents ==
    pc \in {"running", "complete"} =>
        /\ anchor_price = IF NEvents = 0 THEN P0 ELSE rebalance_events[NEvents].price
        /\ \A j \in 1..NEvents :
              rebalance_events[j].anchor_before =
                  IF j = 1 THEN P0 ELSE rebalance_events[j - 1].price

\* two rebalances at different prices, neither at P0
C3_Witness ==
    /\ pc = "complete"
    /\ NEvents >= 2
    /\ rebalance_events[2].anchor_before # P0
    /\ rebalance_events[2].price # rebalance_events[1].price

\* cash and position in force before event j: the initial hedge, or what
\* event j - 1 recorded
CashBefore(j) ==
    IF j = 1 THEN Mul(Mul(eth_in_pool, hedge_k0), P0) ELSE rebalance_events[j - 1].cash
HBefore(j) ==
    IF j = 1 THEN Neg(Mul(eth_in_pool, hedge_k0)) ELSE rebalance_events[j - 1].H_target

\* C4: every event at price Pnow records k = calculate_k(Pnow), eth_now =
\* primary amount of amounts_from_L(Pnow), H_target = -(eth_now * k),
\* delta_H = H_target - H_before, cash = cash_before - delta_H * Pnow and
\* hedge_pnl_mtm = cash + H_target * Pnow; H_before chains from the initial
\* position through the preceding event's H_target; currentPosition is the
\* latest H_target.
C4_RebalanceStep ==
    pc \in {"running", "complete"} =>
        /\ \A j \in 1..NEvents :
              LET e == rebalance_events[j]
              IN  /\ e.k = CalculateK(e.price, Pl, Pu, hedge_k0)
                  /\ e.eth_now = AmountsFromL(e.price, Pl, Pu, L).x
                  /\ e.H_target = Neg(Mul(e.eth_now, e.k))
                  /\ e.H_before = HBefore(j)
                  /\ e.delta_H = Sub(e.H_target, e.H_before)
                  /\ e.cash = Sub(CashBefore(j), Mul(e.delta_H, e.price))
                  /\ e.hedge_pnl_mtm = Add(e.cash, Mul(e.H_target, e.price))
        /\ current_H = HBefore(NEvents + 1)
        /\ cash = CashBefore(NEvents + 1)

\* two rebalances that each traded a non-zero amount
C4_Witness ==
    /\ pc = "complete"
    /\ NEvents >= 2
    /\ rebalance_events[1].delta_H # Zero
    /\ rebalance_events[2].delta_H # Zero
    /\ rebalance_events[2].H_before = rebalance_events[1].H_target

RECURSIVE SumAbsDelta(_)
SumAbsDelta(evs) ==
    IF evs = <<>> THEN Zero
    ELSE Add(SumAbsDelta(SubSeq(evs, 1, Len(evs) - 1)), Abs(evs[Len(evs)].delta_H))

C5_Sum ==
    /\ cumulative_abs_delta_h = SumAbsDelta(rebalance_events)
    /\ result.returned =>
          result.summary.cumulative_abs_delta_h = SumAbsDelta(result.rebalance_events)

\* C5: cumulative_abs_delta_h never decreases, and it (and the summary's
\* value) equals the sum of |delta_H| over the emitted events, 0 without any.
C5_CumulativeAbsDelta ==
    [](C5_Sum) /\ [][Le(cumulative_abs_delta_h, cumulative_abs_delta_h')]_vars

\* a completed run whose events traded in both directions
C5_Witness ==
    /\ pc = "complete"
    /\ NEvents >= 2
    /\ \E j \in 1..NEvents : Lt(rebalance_events[j].delta_H, Zero)
    /\ \E j \in 1..NEvents : Lt(Zero, rebalance_events[j].delta_H)
    /\ Lt(Zero, result.summary.cumulative_abs_delta_h)

LastPrice == price_data[Len(price_data)][2]

\* C6: in the summary total_pnl = hedge_pnl + lp_pnl, hedge_pnl = cash +
\* currentPosition * finalPrice, lp_pnl = lp_value(finalPrice) - lp_value(P0),
\* finalPrice is the last point's price, and final_hedge_position is the last
\* event's H_target (the initial position without events).
C6_SummaryIdentity ==
    pc = "complete" =>
        LET sm == result.summary
        IN  /\ result.returned
            /\ sm.final_price = LastPrice
            /\ sm.hedge_pnl = Add(cash, Mul(current_H, LastPrice))
            /\ sm.lp_pnl = Sub(LpValue(LastPrice, Pl, Pu, L).v, LpValue(P0, Pl, Pu, L).v)
            /\ sm.total_pnl = Add(sm.hedge_pnl, sm.lp_pnl)
            /\ sm.final_hedge_position =
                  IF NEvents = 0 THEN Neg(Mul(eth_in_pool, hedge_k0))
                  ELSE rebalance_events[NEvents].H_target
            /\ sm.final_hedge_position = current_H
            /\ result.rebalance_events = rebalance_events

\* a completed run whose last tick was skipped away from the anchor
C6_Witness ==
    /\ pc = "complete"
    /\ NEvents >= 1
    /\ result.summary.final_price # anchor_price
    /\ result.summary.total_pnl # Zero

\* C7: before the first tick is examined currentPosition = -(eth * k0),
\* cash = eth * k0 * P0, anchor = P0, the log is empty and turnover is 0;
\* P0 is the first point of the filtered series under from_data and the
\* configured value otherwise.
C7_InitialHedgeState ==
    (pc = "running" /\ i = 2) =>
        /\ P0 = IF P0_MODE = "from_data" THEN data_all[start_ts][2] ELSE CfgP0
        /\ current_H = Neg(Mul(eth_in_pool, hedge_k0))
        /\ cash = Mul(Mul(eth_in_pool, hedge_k0), P0)
        /\ anchor_price = P0
        /\ rebalance_events = <<>>
        /\ rebalance_count = 0
        /\ cumulative_abs_delta_h = Zero

\* a from_data run over a window that starts after the first row, at a
\* price other than the configured one
C7_Witness ==
    /\ pc = "running"
    /\ i = 2
    /\ P0_MODE = "from_data"
    /\ start_ts = 2
    /\ P0 # CfgP0
    /\ P0 # data_all[1][2]
    /\ Lt(current_H, Zero)

\* C8: a run that got past the setup has >= 2 points, Pl < P0 < Pu and
\* eth_in_pool > 0; every recorded event and the final valuation is at a
\* price > 0; a run that raised returned nothing, and only a completed run
\* returned a summary and events.
C8_FailFast ==
    /\ pc \in {"running", "complete"} =>
          /\ Len(price_data) >= 2
          /\ Cardinality({j \in 1..Len(data_all) : start_ts <= j /\ j <= end_ts}) >= 2
          /\ Lt(Pl, P0) /\ Lt(P0, Pu)
          /\ Lt(Zero, eth_in_pool)
          /\ \A j \in 1..NEvents : Lt(Zero, rebalance_events[j].price)
          /\ \A n \in 2..Len(price_data) :
                (n < i /\ Le(price_data[n][2], Zero)) =>
                    \A j \in 1..NEvents : rebalance_events[j].ts # price_data[n][1]
    /\ pc = "complete" => Lt(Zero, LastPrice)
    /\ pc = "raised" => result = NoResult
    /\ result.returned <=> pc = "complete"

\* a run that raised at a tick after it had already rebalanced
C8_Witness ==
    /\ pc = "raised"
    /\ NEvents >= 1
    /\ i <= Len(price_data)
    /\ Le(price_data[i][2], Zero)
    /\ result = NoResult

\* C9: for valid inputs (prices > 0, L > 0, Pl < Pu) amounts_from_L returns
\* (x > 0, y = 0) when P <= Pl, (x = 0, y > 0) when P >= Pu and
\* (x > 0, y > 0) strictly inside; P = Pl is all primary asset and P = Pu is
\* all complementary asset.
C9_AmountRegimes ==
    (/\ call.fn = "amounts_from_L"
     /\ call.done
     /\ Lt(Zero, call.P) /\ Lt(Zero, call.Pl) /\ Lt(Zero, call.Pu)
     /\ Lt(Zero, call.L)
     /\ Lt(call.Pl, call.Pu)) =>
        /\ call.ok
        /\ Le(call.P, call.Pl) => Lt(Zero, call.x) /\ call.y = Zero
        /\ Le(call.Pu, call.P) => call.x = Zero /\ Lt(Zero, call.y)
        /\ (Lt(call.Pl, call.P) /\ Lt(call.P, call.Pu)) =>
              Lt(Zero, call.x) /\ Lt(Zero, call.y)

\* a call with P exactly at Pupper: all complementary asset
C9_Witness ==
    /\ call.fn = "amounts_from_L"
    /\ call.done
    /\ call.ok
    /\ call.P = call.Pu
    /\ call.x = Zero
    /\ Lt(Zero, call.y)

\* C10: for 0 < Pl < Pu and k0 in [0,1] calculate_k is 1 for P <= Pl, 0 for
\* P >= Pu, k0 at the midpoint (Pl + Pu) / 2, and always within [0,1].
C10_HedgeRatioSchedule ==
    (call.fn = "calculate_k" /\ call.done) =>
        /\ Le(call.P, call.Pl) => call.k = One
        /\ Le(call.Pu, call.P) => call.k = Zero
        /\ Add(call.P, call.P) = Add(call.Pl, call.Pu) => call.k = call.k0
        /\ Le(Zero, call.k)
        /\ Le(call.k, One)

\* a call at a midpoint that is not a whole price, with k0 = 0.7
C10_Witness ==
    /\ call.fn = "calculate_k"
    /\ call.done
    /\ call.k0 = <<7, 10>>
    /\ call.P[2] = 2
    /\ Add(call.P, call.P) = Add(call.Pl, call.Pu)
    /\ call.k = <<7, 10>>

\* C11: for 0 < Pl < P0 < Pu and targetValue > 0, L_from_initial_usd returns
\* L > 0 and lp_value(P0, Pl, Pu, L) = targetValue; with P0 at Pl or at Pu,
\* or targetValue <= 0, it raises and returns no liquidity.
C11_LiquidityInvertsValue ==
    (call.fn = "L_from_initial_usd" /\ call.done) =>
        /\ (/\ Lt(Zero, call.Pl) /\ Lt(call.Pl, call.P0) /\ Lt(call.P0, call.Pu)
            /\ Lt(Zero, call.initial_usd)) =>
              /\ call.ok
              /\ Lt(Zero, call.L)
              /\ call.value_ok
              /\ call.value = call.initial_usd
        /\ (call.P0 = call.Pl \/ call.P0 = call.Pu \/ Le(call.initial_usd, Zero)) =>
              ~call.ok /\ call.L = Zero

\* a sizing to a target value of 100 strictly inside the range
C11_Witness ==
    /\ call.fn = "L_from_initial_usd"
    /\ call.done
    /\ call.ok
    /\ call.initial_usd = <<100, 1>>
    /\ call.value = <<100, 1>>
    /\ call.L # call.initial_usd

\* both calls of the pair have lower < price < upper
PairInRange ==
    /\ call.fn = "calc_usdt_for_eth_in_pool"
    /\ call.done
    /\ Lt(call.lower, call.price) /\ Lt(call.price, call.upper)
    /\ Lt(call.lower2, call.price2) /\ Lt(call.price2, call.upper2)

\* C12: with lower < price < upper and a fixed positive eth_in_pool,
\* calc_usdt_for_eth_in_pool is strictly increasing in price, strictly
\* decreasing in upper and strictly increasing as lower decreases, the other
\* two parameters held fixed.
C12_UsdtMonotone ==
    PairInRange =>
        /\ call.ok /\ call.ok2
        /\ Lt(call.price, call.price2) => Lt(call.usdt, call.usdt2)
        /\ Lt(call.upper, call.upper2) => Lt(call.usdt2, call.usdt)
        /\ Lt(call.lower2, call.lower) => Lt(call.usdt, call.usdt2)

\* a pair that widens the range upwards and needs strictly less USDT
C12_Witness ==
    /\ PairInRange
    /\ Lt(call.upper, call.upper2)
    /\ Lt(Zero, call.usdt2)
    /\ Lt(call.usdt2, call.usdt)

\* price at which the position going into event j was opened
PriceBefore(j) == IF j = 1 THEN P0 ELSE rebalance_events[j - 1].price

\* sum over the first n events of (position held into the event) times
\* (price change since the previous rebalance, or since P0)
RECURSIVE CarryPnl(_)
CarryPnl(n) ==
    IF n = 0 THEN Zero
    ELSE Add(CarryPnl(n - 1),
             Mul(rebalance_events[n].H_before,
                 Sub(rebalance_events[n].price, PriceBefore(n))))

\* C13: every rebalance trade leaves the mark-to-market unchanged at its
\* price, the initial mark-to-market at P0 is 0, and the final hedge_pnl is
\* the sum over the intervals between P0, the rebalance prices and the final
\* price of the position held times the price change.
C13_SelfFinancing ==
    pc \in {"running", "complete"} =>
        /\ Add(CashBefore(1), Mul(HBefore(1), P0)) = Zero
        /\ NEvents = 0 => Add(cash, Mul(current_H, P0)) = Zero
        /\ \A j \in 1..NEvents :
              LET e == rebalance_events[j]
              IN  Add(e.cash, Mul(e.H_target, e.price)) =
                      Add(CashBefore(j), Mul(e.H_before, e.price))
        /\ pc = "complete" =>
              result.summary.hedge_pnl =
                  Add(CarryPnl(NEvents),
                      Mul(result.summary.final_hedge_position,
                          Sub(LastPrice, PriceBefore(NEvents + 1))))

\* a completed run with a trade, then a skipped last tick away from the
\* anchor, a position still open and a non-zero PnL
C13_Witness ==
    /\ pc = "complete"
    /\ NEvents >= 1
    /\ rebalance_events[1].delta_H # Zero
    /\ LastPrice # anchor_price
    /\ result.summary.final_hedge_position # Zero
    /\ result.summary.hedge_pnl # Zero

\* the position's largest primary-asset amount: all of it, at or below Pl
MaxExposure == Mul(L, Sub(Div(One, Sqrt(Pl)), Div(One, Sqrt(Pu))))

\* C14: with k0 in [0,1] and eth_in_pool > 0 the hedge is never long and
\* never larger than L * (1/sqrt(Pl) - 1/sqrt(Pu)) in any state of a run, and
\* it is exactly 0 after a rebalance at a price >= Pu.
C14_HedgeWithinExposure ==
    (/\ pc \in {"running", "complete"}
     /\ Le(Zero, hedge_k0) /\ Le(hedge_k0, One)
     /\ Lt(Zero, eth_in_pool)) =>
        /\ Le(current_H, Zero)
        /\ Le(Abs(current_H), MaxExposure)
        /\ \A j \in 1..NEvents :
              LET e == rebalance_events[j]
              IN  /\ Le(e.H_target, Zero)
                  /\ Le(Abs(e.H_target), MaxExposure)
                  /\ Le(Pu, e.price) => e.H_target = Zero
        /\ (NEvents >= 1 /\ Le(Pu, rebalance_events[NEvents].price)) => current_H = Zero

\* a short closed completely by a rebalance above the range
C14_Witness ==
    /\ pc \in {"running", "complete"}
    /\ NEvents >= 1
    /\ Lt(Pu, rebalance_events[NEvents].price)
    /\ Lt(rebalance_events[NEvents].H_before, Zero)
    /\ current_H = Zero

\* C15: the liquidity run_backtest derives from eth_in_pool makes
\* amounts_from_L(P0, Pl, Pu, L) return eth_in_pool as primary amount and the
\* initial_usdt_required of calc_usdt_for_eth_in_pool as complementary amount,
\* so lp_value_start = eth_in_pool * P0 + initial_usdt_required.
C15_InlineLiquidityConsistent ==
    pc \in {"running", "complete"} =>
        LET a == AmountsFromL(P0, Pl, Pu, L)
        IN  /\ Lt(Pl, P0) /\ Lt(P0, Pu) /\ Lt(Zero, eth_in_pool)
            /\ a.ok
            /\ a.x = eth_in_pool
            /\ a.y = initial_usdt
            /\ lp_value_start = Add(Mul(eth_in_pool, P0), initial_usdt)
            /\ pc = "complete" =>
                  /\ result.summary.L = L
                  /\ result.summary.initial_usdt_required = initial_usdt
                  /\ result.summary.lp_value_start =
                        Add(Mul(result.summary.eth_in_pool, result.summary.P0),
                            result.summary.initial_usdt_required)

\* a completed from_data run that needed a positive USDT amount
C15_Witness ==
    /\ pc = "complete"
    /\ P0_MODE = "from_data"
    /\ P0 # CfgP0
    /\ Lt(Zero, result.summary.initial_usdt_required)
    /\ result.summary.L # result.summary.eth_in_pool

====
